---- MODULE Spec2Model ----
(***************************************************************************)
(* State-machine model of the currency converter: the two cached-resource  *)
(* loaders (ConverterCommon.load_currencies, ConverterOER.load_rates), the *)
(* two conversion strategies (ConverterXE, ConverterOER), App and the      *)
(* entry point main with its one-hop strategy fallback.                    *)
(*                                                                         *)
(* Python values are modelled as follows.  A float is an exact rational   *)
(* <<n, d>> (d > 0, reduced).  A dict is a sequence of entries in          *)
(* insertion order.  None for a currency is the token NoneCur.  An         *)
(* exception is the string naming it ("KeyError", "ConversionError"); the  *)
(* type attribute of a ConversionError is carried next to it.              *)
(***************************************************************************)
EXTENDS Integers, Sequences, FiniteSets, TLC

\* ------------------------------------------------------------- bounds
MaxMinutes == 1        \* largest expiration window of the config, minutes
MaxDepth == 3          \* cap on nested main frames (the code reaches 2)

\* converters.py line 32 and line 194: minutes * 60
SecondsPerMinute == 60

\* ------------------------------------------------------------- floats
RECURSIVE Gcd(_, _)
Gcd(a, b) == IF b = 0 THEN a ELSE Gcd(b, a % b)

Abs(n) == IF n < 0 THEN -n ELSE n

Rat(n, d) ==
    LET g == Gcd(Abs(n), d) IN <<n \div g, d \div g>>

FMul(x, y) == Rat(x[1] * y[1], x[2] * y[2])

\* y # 0 is the caller's duty (the model's rates are positive)
FDiv(x, y) ==
    IF y[1] > 0 THEN Rat(x[1] * y[2], x[2] * y[1])
    ELSE Rat(-(x[1] * y[2]), x[2] * (-y[1]))

Round2_Truncate(x) == Rat((x[1] * 100) \div x[2], 100)

\* round(x, 2): nearest hundredth, ties to the even hundredth
Round2(x) ==
    LET num == x[1] * 100
        q == num \div x[2]
        r == num % x[2]
        up == \/ 2 * r > x[2]
              \/ (2 * r = x[2] /\ q % 2 = 1)
    IN Rat(IF up THEN q + 1 ELSE q, 100)

\* ------------------------------------------------------------- data
NoneCur == "<None>"

Entry(c, s, n) == [code |-> c, symbol |-> s, name |-> n]

USD == Entry("USD", "$", "US Dollar")
EUR == Entry("EUR", "Eu", "Euro")
GBP == Entry("GBP", "Lb", "British Pound")

\* the directory a cache file may hold, and the one the remote serves
DirCached == <<USD, EUR>>
DirRemote == <<USD, EUR, GBP>>

Rate(c, r) == [code |-> c, rate |-> r]

RatesCached == <<Rate("EUR", <<9, 10>>)>>
RatesRemote == <<Rate("EUR", <<9, 10>>), Rate("GBP", <<4, 5>>)>>

\* the rates the scrape service quotes with (its own data)
RatesXE == <<Rate("USD", <<1, 1>>), Rate("EUR", <<9, 10>>), Rate("GBP", <<4, 5>>)>>

Keys(d) == {d[i].code : i \in 1..Len(d)}

\* d[k] of a dict held as a sequence (k \in Keys(d)); the last entry wins
Get(d, k) ==
    LET i == CHOOSE j \in 1..Len(d) :
                 d[j].code = k /\ \A m \in (j+1)..Len(d) : d[m].code # k
    IN d[i]

\* d[k] = v: replace in place, or append
Put(d, e) ==
    IF e.code \in Keys(d)
    THEN [i \in 1..Len(d) |-> IF d[i].code = e.code THEN e ELSE d[i]]
    ELSE Append(d, e)

Times == {t \in 0..(MaxMinutes * SecondsPerMinute + 1) :
            \E k \in 0..MaxMinutes :
               t \in {k * SecondsPerMinute, k * SecondsPerMinute + 1}}

\* ------------------------------------------------------------- cache files
(* A persisted envelope.  kind says what reading it does:                  *)
(*   "absent"       open() raises FileNotFoundError                        *)
(*   "unparseable"  json.load raises JSONDecodeError                       *)
(*   "noTimestamp"  an object without 'timestamp': KeyError (and likewise  *)
(*                  the TypeError of a JSON value that is no object)       *)
(*   "noPayload"    an object with 'timestamp' but no payload key          *)
(*   "ok"           an object with both keys                               *)
File(k, t, p) == [kind |-> k, timestamp |-> t, payload |-> p]

CorruptKinds == {"absent", "unparseable", "noTimestamp"}

\* ------------------------------------------------------------- load_currencies
CurrExpired_Inclusive(time_diff, curr_exp) == time_diff >= curr_exp

\* converters.py line 55
CurrExpired(time_diff, curr_exp) == time_diff > curr_exp

\* lines 51-61: what the first try block decides
CurrCacheRead(cache, now, curr_exp) ==
    IF cache.kind \in CorruptKinds THEN "missing"
    ELSE IF CurrExpired(now - cache.timestamp, curr_exp) THEN "expired"
    ELSE "fresh"

\* cache['currencies'] (lines 63 and 75): the payload, or KeyError
CurrAdopt(cache, fetched) ==
    IF cache.kind = "noPayload"
    THEN [raised |-> "KeyError", type |-> "", currencies |-> <<>>,
          file |-> cache, fetched |-> fetched]
    ELSE [raised |-> "none", type |-> "", currencies |-> cache.payload,
          file |-> cache, fetched |-> fetched]

(* get_currencies (lines 80-93) on a remote answer.  fetch.kind is         *)
(*   "error"    requests.get or .json() raises                             *)
(*   "partial"  the first fetch.good entries are well formed, the next one *)
(*              lacks 'symbol' or 'name': KeyError inside the loop         *)
(*   "ok"       every entry is well formed                                 *)
(* self.currencies starts empty and is filled entry by entry.              *)
GetCurrencies(fetch) ==
    CASE fetch.kind = "error" -> [raised |-> TRUE, currencies |-> <<>>]
      [] fetch.kind = "partial" ->
            [raised |-> TRUE, currencies |-> SubSeq(fetch.entries, 1, fetch.good)]
      [] OTHER -> [raised |-> FALSE, currencies |-> fetch.entries]

\* save_currencies (lines 95-102)
SaveCurrencies(currencies, now) == File("ok", now, currencies)

CurrFetchFailed_KeepPartial(missing, cache, got) ==
    IF missing
    THEN [raised |-> "ConversionError", type |-> "no_currs_data",
          currencies |-> got.currencies, file |-> cache, fetched |-> TRUE]
    ELSE [raised |-> "none", type |-> "", currencies |-> got.currencies,
          file |-> cache, fetched |-> TRUE]

\* lines 69-75: get_currencies raised
CurrFetchFailed(missing, cache, got) ==
    IF missing
    THEN [raised |-> "ConversionError", type |-> "no_currs_data",
          currencies |-> got.currencies, file |-> cache, fetched |-> TRUE]
    ELSE CurrAdopt(cache, TRUE)

\* load_currencies (lines 36-78)
LoadCurrencies(cache, now, curr_exp, fetch) ==
    LET read == CurrCacheRead(cache, now, curr_exp)
        got == GetCurrencies(fetch)
    IN IF read = "fresh" THEN CurrAdopt(cache, FALSE)
       ELSE IF got.raised THEN CurrFetchFailed(read = "missing", cache, got)
       ELSE [raised |-> "none", type |-> "", currencies |-> got.currencies,
             file |-> SaveCurrencies(got.currencies, now), fetched |-> TRUE]

\* list_currencies (lines 104-113)
ListCurrencies(currencies) == currencies

\* ------------------------------------------------------------- load_rates
RatesExpired_Inclusive(time_diff, rates_exp) == time_diff >= rates_exp

\* converters.py line 244
RatesExpired(time_diff, rates_exp) == time_diff > rates_exp

\* lines 240-249
RatesCacheRead(cache, now, rates_exp) ==
    IF cache.kind \in CorruptKinds THEN "missing"
    ELSE IF RatesExpired(now - cache.timestamp, rates_exp) THEN "expired"
    ELSE "fresh"

SaveRates_Unstamped(response) ==
    IF response.kind = "noTimestamp" THEN File("unparseable", 0, <<>>)
    ELSE File("ok", 0, response.rates)

\* save_rates (lines 266-273): open(.., 'w') truncates the file before the
\* envelope is built, so a response without 'timestamp' leaves it empty
SaveRates(response) ==
    IF response.kind = "noTimestamp" THEN File("unparseable", 0, <<>>)
    ELSE File("ok", response.timestamp, response.rates)

RatesFetchFailed_UseStale(cache) ==
    IF cache.kind = "ok"
    THEN [raised |-> "none", type |-> "", loaded |-> TRUE,
          rates |-> cache.payload, file |-> cache, fetched |-> TRUE]
    ELSE [raised |-> "ConversionError", type |-> "oer_error", loaded |-> FALSE,
          rates |-> <<>>, file |-> cache, fetched |-> TRUE]

\* lines 259-260: the request raised
RatesFetchFailed(cache) ==
    [raised |-> "ConversionError", type |-> "oer_error", loaded |-> FALSE,
     rates |-> <<>>, file |-> cache, fetched |-> TRUE]

(* load_rates (lines 229-264).  response.kind is                            *)
(*   "error"        requests.get or .json() raises                         *)
(*   "noRates"      a JSON object without 'rates' (the API's error body)   *)
(*   "noTimestamp"  'rates' but no 'timestamp'                             *)
(*   "ok"           both                                                   *)
LoadRates(cache, now, rates_exp, response) ==
    LET read == RatesCacheRead(cache, now, rates_exp)
    IN IF read = "fresh"
       THEN IF cache.kind = "noPayload"
            THEN [raised |-> "KeyError", type |-> "", loaded |-> FALSE,
                  rates |-> <<>>, file |-> cache, fetched |-> FALSE]
            ELSE [raised |-> "none", type |-> "", loaded |-> TRUE,
                  rates |-> cache.payload, file |-> cache, fetched |-> FALSE]
       ELSE CASE response.kind = "error" -> RatesFetchFailed(cache)
              [] response.kind = "noRates" ->
                    [raised |-> "KeyError", type |-> "", loaded |-> FALSE,
                     rates |-> <<>>, file |-> cache, fetched |-> TRUE]
              [] response.kind = "noTimestamp" ->
                    [raised |-> "KeyError", type |-> "", loaded |-> TRUE,
                     rates |-> response.rates, file |-> SaveRates(response),
                     fetched |-> TRUE]
              [] OTHER ->
                    [raised |-> "none", type |-> "", loaded |-> TRUE,
                     rates |-> response.rates, file |-> SaveRates(response),
                     fetched |-> TRUE]

\* ------------------------------------------------------------- ConverterXE
(* get_response (lines 160-171) on a remote answer.  resp.kind is           *)
(*   "unreachable"  requests.get raises (line 162)                         *)
(*   "nospan"       a span is missing: find() gives None and .text raises  *)
(*                  AttributeError (lines 164, 167, 168)                   *)
(*   "nonnumeric"   float() raises ValueError (line 165)                   *)
(*   "ok"           the page gave an amount and the two echoed codes       *)
GetResponse(resp) ==
    IF resp.kind = "unreachable" THEN "ConnectionError"
    ELSE IF resp.kind = "nospan" THEN "AttributeError"
    ELSE IF resp.kind = "nonnumeric" THEN "ValueError"
    ELSE "none"

CheckResponse_BothDiffer(resp, xe_params) ==
    IF resp.returned_currs[1] # xe_params.From
       /\ resp.returned_currs[2] # xe_params.To
    THEN "False" ELSE "None"

\* check_response (lines 173-184): False on a mismatch, else None
CheckResponse(resp, xe_params) ==
    IF resp.returned_currs[1] # xe_params.From
       \/ resp.returned_currs[2] # xe_params.To
    THEN "False" ELSE "None"

XEConvert_CatchConnectionOnly(params, resp) ==
    IF GetResponse(resp) = "ConnectionError"
    THEN [raised |-> "ConversionError", type |-> "xe_error", value |-> <<0, 1>>]
    ELSE IF GetResponse(resp) # "none"
    THEN [raised |-> GetResponse(resp), type |-> "", value |-> <<0, 1>>]
    ELSE IF resp.returned_currs = <<params.in_currency, params.out_currency>>
    THEN [raised |-> "none", type |-> "", value |-> resp.converted]
    ELSE [raised |-> "ConversionError", type |-> "unsupported", value |-> <<0, 1>>]

XEConvert_MismatchAsError(params, resp) ==
    IF GetResponse(resp) # "none"
       \/ resp.returned_currs # <<params.in_currency, params.out_currency>>
    THEN [raised |-> "ConversionError", type |-> "xe_error", value |-> <<0, 1>>]
    ELSE [raised |-> "none", type |-> "", value |-> resp.converted]

\* ConverterXE.convert (lines 128-158)
XEConvert(params, resp) ==
    LET xe_params == [Amount |-> params.amount, From |-> params.in_currency,
                      To |-> params.out_currency]
    IN IF GetResponse(resp) # "none"
       THEN [raised |-> "ConversionError", type |-> "xe_error", value |-> <<0, 1>>]
       ELSE IF CheckResponse(resp, xe_params) # "False"
       THEN [raised |-> "none", type |-> "", value |-> resp.converted]
       ELSE [raised |-> "ConversionError", type |-> "unsupported", value |-> <<0, 1>>]

\* ------------------------------------------------------------- ConverterOER
Unsupported_AsOerError(n) ==
    [raised |-> "ConversionError", type |-> "oer_error", value |-> <<0, 1>>,
     entered |-> n]

Unsupported(n) ==
    [raised |-> "ConversionError", type |-> "unsupported", value |-> <<0, 1>>,
     entered |-> n]

OERConvert_TwoCalls(rates, params, n) ==
    IF params.in_currency = "USD"
    THEN IF params.out_currency \in Keys(rates)
         THEN [raised |-> "none", type |-> "", entered |-> n,
               value |-> FMul(params.amount, Get(rates, params.out_currency).rate)]
         ELSE Unsupported(n)
    ELSE IF params.out_currency = "USD"
    THEN IF params.in_currency \in Keys(rates)
         THEN [raised |-> "none", type |-> "", entered |-> n,
               value |-> FDiv(params.amount, Get(rates, params.in_currency).rate)]
         ELSE Unsupported(n)
    ELSE IF params.in_currency \in Keys(rates)
    THEN IF params.out_currency \in Keys(rates)
         THEN [raised |-> "none", type |-> "", entered |-> n + 2,
               value |-> FMul(FDiv(params.amount,
                                   Get(rates, params.in_currency).rate),
                              Get(rates, params.out_currency).rate)]
         ELSE Unsupported(n + 2)
    ELSE Unsupported(n + 1)

OERConvert_RoundPivot(rates, params, n) ==
    IF params.in_currency = "USD"
    THEN IF params.out_currency \in Keys(rates)
         THEN [raised |-> "none", type |-> "", entered |-> n,
               value |-> FMul(params.amount, Get(rates, params.out_currency).rate)]
         ELSE Unsupported(n)
    ELSE IF params.out_currency = "USD"
    THEN IF params.in_currency \in Keys(rates)
         THEN [raised |-> "none", type |-> "", entered |-> n,
               value |-> FDiv(params.amount, Get(rates, params.in_currency).rate)]
         ELSE Unsupported(n)
    ELSE IF params.in_currency \in Keys(rates)
    THEN IF params.out_currency \in Keys(rates)
         THEN [raised |-> "none", type |-> "", entered |-> n + 1,
               value |-> FMul(Round2(FDiv(params.amount,
                                          Get(rates, params.in_currency).rate)),
                              Get(rates, params.out_currency).rate)]
         ELSE Unsupported(n + 1)
    ELSE Unsupported(n)

\* ConverterOER.convert (lines 212-227) once the rates are loaded; entered
\* counts the entries into convert
RECURSIVE OERConvert(_, _, _)
OERConvert(rates, params, n) ==
    IF params.in_currency = "USD"
    THEN IF params.out_currency \in Keys(rates)
         THEN [raised |-> "none", type |-> "", entered |-> n,
               value |-> FMul(params.amount, Get(rates, params.out_currency).rate)]
         ELSE Unsupported(n)
    ELSE IF params.out_currency = "USD"
    THEN IF params.in_currency \in Keys(rates)
         THEN [raised |-> "none", type |-> "", entered |-> n,
               value |-> FDiv(params.amount, Get(rates, params.in_currency).rate)]
         ELSE Unsupported(n)
    ELSE IF params.in_currency \in Keys(rates)
         THEN OERConvert(rates,
                         [amount |-> FDiv(params.amount,
                                          Get(rates, params.in_currency).rate),
                          in_currency |-> "USD",
                          out_currency |-> params.out_currency],
                         n + 1)
         ELSE Unsupported(n)

\* ------------------------------------------------------------- App
\* "'xe' in override_converter" and "'oer' in ..." (lines 115, 118) on the
\* override strings of the model
HasSub(s, sub) == s = sub

\* set_converter (lines 107-129): the class it constructs
SetConverter(override_converter, config) ==
    IF HasSub(override_converter, "xe") THEN "XE"
    ELSE IF HasSub(override_converter, "oer") THEN "OER"
    ELSE IF config.converter = "ConverterXE" THEN "XE"
    ELSE "OER"

(* line 147: "'symbol': '<string>'" in str(values).  For symbols, names    *)
(* and tokens without quote characters, as here, the text occurs in        *)
(* "{'symbol': 'S', 'name': 'N'}" exactly when S is the string.            *)
SymbolIn(string, values) == values.symbol = string

CheckCurrency_NeverRaises(string, which, currencies) ==
    LET hits == {i \in 1..Len(currencies) : SymbolIn(string, currencies[i])}
    IN IF string = NoneCur THEN [raised |-> "none", code |-> NoneCur]
       ELSE IF string \in Keys(currencies) THEN [raised |-> "none", code |-> string]
       ELSE IF hits # {}
       THEN [raised |-> "none",
             code |-> currencies[CHOOSE i \in hits : \A j \in hits : i <= j].code]
       ELSE [raised |-> "none", code |-> NoneCur]

\* check_currency (lines 131-156)
CheckCurrency(string, which, currencies) ==
    LET hits == {i \in 1..Len(currencies) : SymbolIn(string, currencies[i])}
    IN IF string = NoneCur THEN [raised |-> "none", code |-> NoneCur]
       ELSE IF string \in Keys(currencies) THEN [raised |-> "none", code |-> string]
       ELSE IF hits # {}
       THEN [raised |-> "none",
             code |-> currencies[CHOOSE i \in hits : \A j \in hits : i <= j].code]
       ELSE IF which = "out" THEN [raised |-> "none", code |-> NoneCur]
       ELSE [raised |-> "ValueError", code |-> NoneCur]

\* get_conversion (lines 218-224): the targets to iterate
OutCurrs(out_currs, config, currencies) ==
    IF out_currs # NoneCur THEN <<out_currs>>
    ELSE IF ~config.override_on
    THEN [i \in 1..Len(currencies) |-> currencies[i].code]
    ELSE config.override_currencies

Skipped_Never(type) == FALSE

\* get_conversion (lines 237-241): an 'unsupported' target is skipped
Skipped(type) == type = "unsupported"

Continue_Break(f) == [f EXCEPT !.idx = Len(f.out_currs) + 1]

\* line 239, continue: the loop goes on with the next target
Continue(f) == [f EXCEPT !.idx = @ + 1]

RatesIsNone_Always(f) == TRUE

\* line 209, "self.rates is None": no load_rates has set the rate table of
\* this converter yet
RatesIsNone(f) == ~f.rates_loaded

\* ------------------------------------------------------------- main
Message(t) == [kind |-> "message", text |-> t]

Return(st, pl) == [kind |-> "return", status |-> st, payload |-> pl]

Raise(exc) ==
    [kind |-> "raise", status |-> 0 - 1, payload |-> [kind |-> "exception", exc |-> exc]]

NoReturn == [kind |-> "none", status |-> 0 - 1, payload |-> Message("")]

RetryOverride_XeOnly(type) == IF type = "xe_error" THEN "oer" ELSE ""

\* lines 298-301 and 302-305: the override the retry is called with
RetryOverride(type) ==
    IF type = "xe_error" THEN "oer"
    ELSE IF type = "oer_error" THEN "xe"
    ELSE ""

RetryFirstTry_True == TRUE

\* lines 300-301, 304-305: first_try of the recursive call
RetryFirstTry == FALSE

\* lines 293-305: what main does with a ConversionError out of app.run()
OnConversionError(first_try, type) ==
    IF first_try = FALSE THEN "fail"
    ELSE IF RetryOverride(type) # "" THEN "retry"
    ELSE "unbound"

\* ------------------------------------------------------------- state
VARIABLES
    clock,       \* time.time(), seconds
    cacheCurr,   \* the file cache_currencies.json
    cacheRates,  \* the file cache_rates.json
    config,      \* the file config.json
    frames,      \* the activations of main, the running one last
    result,      \* what the outermost main returned (or raised) to its caller
    calls,       \* history: one record per activation of main of this call
    runs,        \* history: the converter each app.run() of this call ran on
    convLog,     \* history: the errors the strategies' convert raised
    currLoad,    \* history: the last load_currencies, its inputs and outcome
    ratesLoad,   \* history: the last load_rates, its inputs and outcome
    lastConv,    \* history: the last call of a strategy's convert by the loop
    earlier      \* history: the last load of each loader in the calls of main
                 \* that have ended, and the number of those calls

vars == <<clock, cacheCurr, cacheRates, config, frames, result,
          calls, runs, convLog, currLoad, ratesLoad, lastConv, earlier>>

env == <<cacheCurr, cacheRates, config>>
hist == <<calls, runs, convLog, currLoad, ratesLoad, lastConv, earlier>>

\* ------------------------------------------------------------- inputs
Amounts == {<<100, 1>>}
InTokens == {"USD", "EUR", "Lb"}
OutTokens == {NoneCur, "USD", "GBP"}
Overrides == {"", "xe", "oer"}

Requests ==
    [amount : Amounts, in_currency : InTokens, out_currency : OutTokens]

NoParams == [amount |-> <<0, 1>>, in_currency |-> NoneCur, out_currency |-> NoneCur]

CurrFiles ==
    {File(k, 0, <<>>) : k \in {"absent", "unparseable", "noPayload"}}
    \cup {File(k, 0, DirCached) : k \in {"noTimestamp", "ok"}}

RatesFiles ==
    {File(k, 0, <<>>) : k \in {"absent", "unparseable", "noPayload"}}
    \cup {File(k, 0, RatesCached) : k \in {"noTimestamp", "ok"}}

Configs ==
    {[ok |-> FALSE, converter |-> "", override_on |-> FALSE,
      override_currencies |-> <<>>, currencies_expiration |-> 0,
      rates_expiration |-> 0]}
    \cup [ok : {TRUE}, converter : {"ConverterXE", "ConverterOER"},
          override_on : BOOLEAN, override_currencies : {<<"EUR", "GBP">>},
          currencies_expiration : 1..MaxMinutes,
          rates_expiration : 1..MaxMinutes]

\* what the remote directory source may answer
CurrFetches ==
    {[kind |-> "error", entries |-> <<>>, good |-> 0],
     [kind |-> "partial", entries |-> DirRemote, good |-> 1],
     [kind |-> "ok", entries |-> DirRemote, good |-> Len(DirRemote)]}

\* what the remote rate source may answer at time now
RatesResponses(now) ==
    {[kind |-> "error", timestamp |-> 0, rates |-> <<>>],
     [kind |-> "noRates", timestamp |-> now, rates |-> <<>>],
     [kind |-> "noTimestamp", timestamp |-> 0, rates |-> RatesRemote]}
    \cup {[kind |-> "ok", timestamp |-> t, rates |-> RatesRemote] : t \in {0, now}}

\* the scrape service's quote for the codes it echoes
XEQuote(amount, from, to) ==
    FMul(FDiv(amount, Get(RatesXE, from).rate), Get(RatesXE, to).rate)

XEKnown(c) == IF c \in Keys(RatesXE) THEN c ELSE "USD"

\* what the scrape service may answer: a failure, or a page for the codes it
\* recognises, a code it does not take (either one) replaced by its default
\* USD
XEResponses(params) ==
    {[kind |-> k, converted |-> <<0, 1>>, returned_currs |-> <<"", "">>] :
        k \in {"unreachable", "nospan", "nonnumeric"}}
    \cup
    {[kind |-> "ok",
      converted |-> XEQuote(params.amount, XEKnown(params.in_currency),
                            XEKnown(params.out_currency)),
      returned_currs |-> <<XEKnown(params.in_currency),
                           XEKnown(params.out_currency)>>],
     [kind |-> "ok",
      converted |-> XEQuote(params.amount, XEKnown(params.in_currency), "USD"),
      returned_currs |-> <<XEKnown(params.in_currency), "USD">>],
     [kind |-> "ok",
      converted |-> XEQuote(params.amount, "USD", XEKnown(params.out_currency)),
      returned_currs |-> <<"USD", XEKnown(params.out_currency)>>]}

NoLoad(file) ==
    [done |-> FALSE, cache |-> file, now |-> 0, exp |-> 0, fetch |-> "",
     raised |-> "none", type |-> "", fetched |-> FALSE, payload |-> <<>>,
     loaded |-> FALSE, file |-> file, depth |-> 0, resp_ts |-> 0]

NoEarlier ==
    [curr |-> NoLoad(File("absent", 0, <<>>)),
     rates |-> NoLoad(File("absent", 0, <<>>)), calls |-> 0]

NoConv ==
    [done |-> FALSE, depth |-> 0, converter |-> "", params |-> NoParams,
     loaded |-> FALSE, rates |-> <<>>, remote |-> "none",
     echoed |-> <<"", "">>, quoted |-> <<0, 1>>,
     raised |-> "none", type |-> "", value |-> <<0, 1>>, entered |-> 0]

Init ==
    /\ clock = 0
    /\ cacheCurr \in CurrFiles
    /\ cacheRates \in RatesFiles
    /\ config \in Configs
    /\ frames = <<>>
    /\ result = NoReturn
    /\ calls = <<>>
    /\ runs = <<>>
    /\ convLog = <<>>
    /\ currLoad = NoLoad(cacheCurr)
    /\ ratesLoad = NoLoad(cacheRates)
    /\ lastConv = NoConv
    /\ earlier = NoEarlier

\* ------------------------------------------------------------- frames
Frame(params, override_converter, list_currs, first_try) ==
    [params |-> params, override_converter |-> override_converter,
     list_currs |-> list_currs, first_try |-> first_try, pc |-> "construct",
     converter |-> "", currencies |-> <<>>, rates_loaded |-> FALSE,
     rates |-> <<>>, app_params |-> NoParams, out_currs |-> <<>>, idx |-> 0,
     converted |-> <<>>, output |-> NoReturn,
     curr_loads |-> 0, rates_loads |-> 0, convert_calls |-> 0]

Depth == Len(frames)
Top == frames[Depth]

SetTop(f) == frames' = [frames EXCEPT ![Depth] = f]

\* the running main ends with res: to the caller of the outermost main, or
\* into the main that called it (lines 300 and 304: output = main(...))
Deliver(res) ==
    IF Depth = 1
    THEN /\ frames' = <<>>
         /\ result' = res
    ELSE /\ frames' = [SubSeq(frames, 1, Depth - 1) EXCEPT
                          ![Depth - 1] = [@ EXCEPT !.pc = "resume", !.output = res]]
         /\ result' = result

\* ------------------------------------------------------------- actions
\* web_api.convert / convert_form / list_currencies, or the command line,
\* call main (line 257) with first_try at its default
MainCall(params, override_converter, list_currs) ==
    /\ frames = <<>>
    /\ result.kind = "none"
    /\ calls = <<>>
    /\ frames' = <<Frame(params, override_converter, list_currs, TRUE)>>
    /\ calls' = <<[params |-> params, override_converter |-> override_converter,
                   list_currs |-> list_currs, first_try |-> TRUE]>>
    /\ runs' = <<>>
    /\ convLog' = <<>>
    /\ UNCHANGED <<clock, env, result, currLoad, ratesLoad, lastConv, earlier>>

\* App.__init__ lines 89-90 (load_config, set_converter and with it the
\* converter's __init__ and load_currencies) under main's handlers, lines
\* 279-289
Construct(fetch) ==
    /\ Depth > 0
    /\ Top.pc = "construct"
    /\ IF ~config.ok
       THEN /\ Deliver(Return(2, Message("Configuration file is missing or corrupted.")))
            /\ UNCHANGED <<cacheCurr, currLoad>>
       ELSE LET curr_exp == config.currencies_expiration * SecondsPerMinute
                res == LoadCurrencies(cacheCurr, clock, curr_exp, fetch)
            IN /\ cacheCurr' = res.file
               /\ currLoad' = [done |-> TRUE, cache |-> cacheCurr, now |-> clock,
                               exp |-> curr_exp,
                               fetch |-> IF res.fetched THEN fetch.kind ELSE "",
                               raised |-> res.raised, type |-> res.type,
                               fetched |-> res.fetched, payload |-> res.currencies,
                               loaded |-> res.raised = "none", file |-> res.file,
                               depth |-> Depth, resp_ts |-> 0]
               /\ IF res.raised = "ConversionError"
                  THEN Deliver(Return(2, Message("No currencies data available.")))
                  ELSE IF res.raised # "none"
                  THEN Deliver(Raise(res.raised))
                  ELSE /\ SetTop([Top EXCEPT
                                     !.pc = "check",
                                     !.converter = SetConverter(Top.override_converter, config),
                                     !.currencies = res.currencies,
                                     !.curr_loads = @ + 1])
                       /\ result' = result
    /\ UNCHANGED <<clock, cacheRates, config, calls, runs, convLog, ratesLoad,
                   lastConv, earlier>>

\* App.__init__ lines 91-100 under main's handler, lines 284-286
CheckCurrencies ==
    /\ Depth > 0
    /\ Top.pc = "check"
    /\ LET in == CheckCurrency(Top.params.in_currency, "in", Top.currencies)
           out == CheckCurrency(Top.params.out_currency, "out", Top.currencies)
       IN IF Top.list_currs
          THEN /\ SetTop([Top EXCEPT !.pc = "run"])
               /\ result' = result
          ELSE IF in.raised = "ValueError"
          THEN Deliver(Return(1, Message("Given input currency is not a valid currency code or symbol.")))
          ELSE /\ SetTop([Top EXCEPT
                             !.pc = "run",
                             !.app_params = [amount |-> Top.params.amount,
                                             in_currency |-> in.code,
                                             out_currency |-> out.code]])
               /\ result' = result
    /\ UNCHANGED <<clock, env, hist>>

\* App.run lines 171-185 with main lines 306-311 (the list of currencies), or
\* lines 187-193 with get_conversion lines 216-226 (the targets)
RunStart ==
    /\ Depth > 0
    /\ Top.pc = "run"
    /\ runs' = Append(runs, Top.converter)
    /\ IF Top.list_currs
       THEN Deliver(Return(0, [kind |-> "list",
                               currencies |-> ListCurrencies(Top.currencies)]))
       ELSE /\ SetTop([Top EXCEPT
                          !.pc = "loop", !.idx = 1, !.converted = <<>>,
                          !.out_currs = OutCurrs(Top.app_params.out_currency,
                                                 config, Top.currencies)])
            /\ result' = result
    /\ UNCHANGED <<clock, env, calls, convLog, currLoad, ratesLoad, lastConv,
                   earlier>>

\* get_conversion lines 237-243 on what convert gave for target curr, and
\* main lines 293-305 on a ConversionError that leaves app.run()
Settle(f, curr, r, cause) ==
    IF r.raised = "none"
    THEN /\ SetTop([f EXCEPT !.idx = @ + 1,
                             !.converted = Put(@, [code |-> curr,
                                                   value |-> Round2(r.value)])])
         /\ UNCHANGED <<result, calls, convLog>>
    ELSE IF r.raised # "ConversionError"
    THEN /\ Deliver(Raise(r.raised))
         /\ UNCHANGED <<calls, convLog>>
    ELSE /\ convLog' = Append(convLog, [converter |-> f.converter, cause |-> cause,
                                        type |-> r.type, depth |-> Depth,
                                        target |-> curr])
         /\ IF Skipped(r.type)
            THEN /\ SetTop(Continue(f))
                 /\ UNCHANGED <<result, calls>>
            ELSE IF OnConversionError(f.first_try, r.type) = "fail"
            THEN /\ Deliver(Return(2, Message("Conversion failed.")))
                 /\ calls' = calls
            ELSE IF OnConversionError(f.first_try, r.type) = "retry"
            THEN /\ Depth < MaxDepth
                 /\ frames' = Append([frames EXCEPT ![Depth] = [f EXCEPT !.pc = "waiting"]],
                                     Frame(f.params, RetryOverride(r.type), FALSE,
                                           RetryFirstTry))
                 /\ calls' = Append(calls,
                                    [params |-> f.params,
                                     override_converter |-> RetryOverride(r.type),
                                     list_currs |-> FALSE,
                                     first_try |-> RetryFirstTry])
                 /\ result' = result
            ELSE /\ Deliver(Raise("UnboundLocalError"))
                 /\ calls' = calls

\* one pass of the loop of get_conversion (lines 227-243) for a target equal
\* to the input currency
ConvertSame ==
    /\ Depth > 0
    /\ Top.pc = "loop"
    /\ Top.idx <= Len(Top.out_currs)
    /\ Top.out_currs[Top.idx] = Top.app_params.in_currency
    /\ SetTop([Top EXCEPT !.idx = @ + 1,
                          !.converted = Put(@, [code |-> Top.out_currs[Top.idx],
                                                value |-> Top.app_params.amount])])
    /\ UNCHANGED <<clock, env, result, hist>>

\* one pass of the loop with ConverterXE.convert
ConvertXE(resp) ==
    /\ Depth > 0
    /\ Top.pc = "loop"
    /\ Top.idx <= Len(Top.out_currs)
    /\ Top.out_currs[Top.idx] # Top.app_params.in_currency
    /\ Top.converter = "XE"
    /\ LET p == [Top.app_params EXCEPT !.out_currency = Top.out_currs[Top.idx]]
           r == XEConvert(p, resp)
       IN /\ resp \in XEResponses(p)
          /\ lastConv' = [NoConv EXCEPT
                             !.done = TRUE, !.depth = Depth, !.converter = "XE",
                             !.params = p,
                             !.remote = IF GetResponse(resp) = "none"
                                        THEN "none" ELSE "failed",
                             !.echoed = resp.returned_currs,
                             !.quoted = resp.converted, !.raised = r.raised,
                             !.type = r.type, !.value = r.value, !.entered = 1]
          /\ Settle([Top EXCEPT !.convert_calls = @ + 1], p.out_currency, r,
                    IF GetResponse(resp) # "none" THEN "transport" ELSE "echo")
    /\ UNCHANGED <<clock, env, runs, currLoad, ratesLoad, earlier>>

\* one pass of the loop with ConverterOER.convert (lines 209-227): the rates
\* are loaded when self.rates is None
ConvertOER(response) ==
    /\ Depth > 0
    /\ Top.pc = "loop"
    /\ Top.idx <= Len(Top.out_currs)
    /\ Top.out_currs[Top.idx] # Top.app_params.in_currency
    /\ Top.converter = "OER"
    /\ LET p == [Top.app_params EXCEPT !.out_currency = Top.out_currs[Top.idx]]
           rates_exp == config.rates_expiration * SecondsPerMinute
           lr == LoadRates(cacheRates, clock, rates_exp, response)
           called == [Top EXCEPT !.convert_calls = @ + 1]
           loading == [called EXCEPT !.rates_loads = @ + 1]
           conv(rates) ==
               LET r == OERConvert(rates, p, 1)
               IN [NoConv EXCEPT
                      !.done = TRUE, !.depth = Depth, !.converter = "OER",
                      !.params = p, !.loaded = TRUE, !.rates = rates,
                      !.raised = r.raised, !.type = r.type, !.value = r.value,
                      !.entered = r.entered]
       IN IF ~RatesIsNone(Top)
          THEN /\ lastConv' = conv(Top.rates)
               /\ Settle(called, p.out_currency, OERConvert(Top.rates, p, 1),
                         "missing_rate")
               /\ UNCHANGED <<cacheRates, ratesLoad>>
          ELSE /\ response \in RatesResponses(clock)
               /\ cacheRates' = lr.file
               /\ ratesLoad' = [done |-> TRUE, cache |-> cacheRates, now |-> clock,
                                exp |-> rates_exp,
                                fetch |-> IF lr.fetched THEN response.kind ELSE "",
                                raised |-> lr.raised, type |-> lr.type,
                                fetched |-> lr.fetched, payload |-> lr.rates,
                                loaded |-> lr.loaded, file |-> lr.file,
                                depth |-> Depth,
                                resp_ts |-> IF lr.fetched THEN response.timestamp
                                            ELSE 0]
               /\ IF lr.raised # "none"
                  THEN /\ lastConv' = [NoConv EXCEPT
                                          !.done = TRUE, !.depth = Depth,
                                          !.converter = "OER", !.params = p,
                                          !.raised = lr.raised, !.type = lr.type,
                                          !.entered = 1]
                       /\ Settle(loading, p.out_currency,
                                 [raised |-> lr.raised, type |-> lr.type],
                                 "rates_fetch")
                  ELSE /\ lastConv' = conv(lr.rates)
                       /\ Settle([loading EXCEPT !.rates_loaded = TRUE,
                                                 !.rates = lr.rates],
                                 p.out_currency, OERConvert(lr.rates, p, 1),
                                 "missing_rate")
    /\ UNCHANGED <<clock, cacheCurr, config, runs, currLoad, earlier>>

\* the loop is over: get_conversion line 244, run lines 188-196, main lines
\* 306-311
RunFinish ==
    /\ Depth > 0
    /\ Top.pc = "loop"
    /\ Top.idx > Len(Top.out_currs)
    /\ Deliver(Return(0, [kind |-> "json",
                          input |-> [amount |-> Top.app_params.amount,
                                     currency |-> Top.app_params.in_currency],
                          output |-> Top.converted]))
    /\ UNCHANGED <<clock, env, hist>>

\* main lines 300 / 304 then 311: the recursive call came back
Resume ==
    /\ Depth > 0
    /\ Top.pc = "resume"
    /\ IF Top.output.kind = "raise"
       THEN Deliver(Top.output)
       ELSE Deliver(Return(0, [kind |-> "result", inner |-> Top.output]))
    /\ UNCHANGED <<clock, env, hist>>

\* time passes.  The clock is read by the loaders only (lines 54, 99, 243),
\* so it is let advance before a call of main and before each construction
Tick(t) ==
    /\ t > clock
    /\ IF Depth = 0 THEN calls = <<>> ELSE Top.pc = "construct"
    /\ clock' = t
    /\ UNCHANGED <<env, frames, result, hist>>

Next ==
    \/ \E params \in Requests, o \in Overrides : MainCall(params, o, FALSE)
    \/ MainCall(NoParams, "", TRUE)
    \/ \E fetch \in CurrFetches : Construct(fetch)
    \/ CheckCurrencies
    \/ RunStart
    \/ ConvertSame
    \/ \E resp \in UNION {XEResponses(q) : q \in
                             [amount : Amounts, in_currency : Keys(DirRemote),
                              out_currency : Keys(DirRemote) \cup {"EUR", "GBP"}]} :
          ConvertXE(resp)
    \/ \E response \in RatesResponses(clock) : ConvertOER(response)
    \/ RunFinish
    \/ Resume
    \/ \E t \in Times : Tick(t)

Spec == Init /\ [][Next]_vars

\* ------------------------------------------- the rate-table strategy, wider
(* The same program on a wider choice of rate tables and amounts: the      *)
(* directory cache is fresh and complete, the rates cache is fresh and     *)
(* holds any table of RateTables, the configuration prefers ConverterOER.  *)
RateValues == {Rat(9, 10), Rat(4, 5), Rat(3, 2)}

RateTables ==
    {<<>>}
    \cup {<<Rate(c, r)>> : c \in {"EUR", "GBP"}, r \in RateValues}
    \cup {<<Rate("EUR", r), Rate("GBP", q)>> : r \in RateValues, q \in RateValues}

AmountsWide == {Rat(100, 1), Rat(2469, 200)}

RequestsWide ==
    [amount : AmountsWide, in_currency : Keys(DirRemote),
     out_currency : {NoneCur} \cup Keys(DirRemote)]

InitOER ==
    /\ clock = 0
    /\ cacheCurr = File("ok", 0, DirRemote)
    /\ cacheRates \in {File("ok", 0, R) : R \in RateTables}
    /\ config \in {c \in Configs : c.ok /\ c.converter = "ConverterOER"}
    /\ frames = <<>>
    /\ result = NoReturn
    /\ calls = <<>>
    /\ runs = <<>>
    /\ convLog = <<>>
    /\ currLoad = NoLoad(cacheCurr)
    /\ ratesLoad = NoLoad(cacheRates)
    /\ lastConv = NoConv
    /\ earlier = NoEarlier

NextOER ==
    \/ \E params \in RequestsWide : MainCall(params, "", FALSE)
    \/ \E fetch \in CurrFetches : Construct(fetch)
    \/ CheckCurrencies
    \/ RunStart
    \/ ConvertSame
    \/ \E response \in RatesResponses(clock) : ConvertOER(response)
    \/ RunFinish

SpecOER == InitOER /\ [][NextOER]_vars

\* ------------------------------------------- two calls, one after the other
(* The caller (web_api serves one request after another; the command line  *)
(* is run again) calls main a second time after the first call ended.  The *)
(* cache files and the clock are what the first call left; the histories   *)
(* of the first call's last loads move to earlier.                         *)
CallAgain(params, override_converter) ==
    /\ frames = <<>>
    /\ result.kind # "none"
    /\ earlier.calls = 0
    /\ frames' = <<Frame(params, override_converter, FALSE, TRUE)>>
    /\ result' = NoReturn
    /\ calls' = <<[params |-> params, override_converter |-> override_converter,
                   list_currs |-> FALSE, first_try |-> TRUE]>>
    /\ runs' = <<>>
    /\ convLog' = <<>>
    /\ earlier' = [curr |-> currLoad, rates |-> ratesLoad,
                   calls |-> earlier.calls + 1]
    /\ UNCHANGED <<clock, env, currLoad, ratesLoad, lastConv>>

RequestsReload ==
    [amount : Amounts, in_currency : {"USD"}, out_currency : {"USD", "EUR"}]

\* expiration windows from 0 minutes on
ConfigsReload ==
    [ok : {TRUE}, converter : {"ConverterOER"}, override_on : {FALSE},
     override_currencies : {<<"EUR", "GBP">>},
     currencies_expiration : 0..MaxMinutes, rates_expiration : 0..MaxMinutes]

InitReload ==
    /\ clock = 0
    /\ cacheCurr \in {File("absent", 0, <<>>), File("ok", 0, DirCached)}
    /\ cacheRates \in {File("absent", 0, <<>>), File("ok", 0, RatesCached)}
    /\ config \in ConfigsReload
    /\ frames = <<>>
    /\ result = NoReturn
    /\ calls = <<>>
    /\ runs = <<>>
    /\ convLog = <<>>
    /\ currLoad = NoLoad(cacheCurr)
    /\ ratesLoad = NoLoad(cacheRates)
    /\ lastConv = NoConv
    /\ earlier = NoEarlier

NextReload ==
    \/ \E params \in RequestsReload : MainCall(params, "", FALSE)
    \/ \E params \in RequestsReload : CallAgain(params, "")
    \/ \E fetch \in CurrFetches : Construct(fetch)
    \/ CheckCurrencies
    \/ RunStart
    \/ ConvertSame
    \/ \E resp \in UNION {XEResponses(q) : q \in
                             [amount : Amounts, in_currency : Keys(DirRemote),
                              out_currency : Keys(DirRemote)]} :
          ConvertXE(resp)
    \/ \E response \in RatesResponses(clock) : ConvertOER(response)
    \/ RunFinish
    \/ Resume
    \/ \E t \in Times : Tick(t)

SpecReload == InitReload /\ [][NextReload]_vars

\* ------------------------------------------------------------- properties
\* the outermost main has returned or raised
Done == frames = <<>> /\ result.kind # "none"

NetworkTypes == {"xe_error", "oer_error"}

\* a strategy signalled a network failure in the activation at depth d
NetFailAt(d) ==
    \E i \in 1..Len(convLog) :
       convLog[i].depth = d /\ convLog[i].type \in NetworkTypes

Other(converter) == IF converter = "XE" THEN "OER" ELSE "XE"

Age(L) == L.now - L.cache.timestamp

\* the envelopes the refresh policy is to treat as MISSING
MissingKinds == {"absent", "unparseable", "noTimestamp", "noPayload"}

(* C1: fallback bound.  At most two activations of main and two runs of    *)
(* app.run() per entry-point call; and once the preferred strategy has     *)
(* signalled xe_error / oer_error, main has called itself exactly once,    *)
(* with the identical request and the other strategy selected.             *)
C1_FallbackBound ==
    /\ Len(calls) <= 2
    /\ Len(runs) <= 2
    /\ NetFailAt(1) =>
          /\ Len(calls) = 2
          /\ calls[2].params = calls[1].params
          /\ SetConverter(calls[2].override_converter, config)
                = Other(SetConverter(calls[1].override_converter, config))

\* C1's case: both strategies ran and main is back at its caller
C1_Witness ==
    /\ Done
    /\ NetFailAt(1)
    /\ Len(runs) = 2
    /\ runs[2] = Other(runs[1])

(* C2: when the preferred strategy fails with a network failure and the    *)
(* alternate strategy then fails with one too, the outermost main returns  *)
(* status 2, never 0.                                                      *)
C2_BothFailedIsServerError ==
    (Done /\ NetFailAt(1) /\ NetFailAt(2)) =>
        (result.kind = "return" /\ result.status = 2)

(* C3: every return of main on a conversion request is a success (status   *)
(* 0) whose payload is the conversion result {input, output}, or a typed   *)
(* failure with status 1 or 2 and its message.                             *)
C3_ReturnShape ==
    (Done /\ result.kind = "return" /\ ~calls[1].list_currs) =>
        \/ result.status = 0 /\ result.payload.kind = "json"
        \/ result.status \in {1, 2} /\ result.payload.kind = "message"

(* C4: an unsupported-currency condition (the scrape service echoing other *)
(* codes, a code absent from the rate table) is signalled as 'unsupported' *)
(* and never triggers fallback: in a run where every strategy error is of  *)
(* that kind main is activated once only.                                  *)
C4_UnsupportedNoFallback ==
    (\A i \in 1..Len(convLog) : convLog[i].cause \in {"echo", "missing_rate"}) =>
        /\ \A i \in 1..Len(convLog) : convLog[i].type = "unsupported"
        /\ Len(calls) <= 1
        /\ Len(runs) <= 1

\* C4's case: targets were skipped as unsupported under each strategy's
\* condition, and main returned its result
C4_Witness ==
    /\ Done
    /\ result.kind = "return" /\ result.status = 0
    /\ Len(convLog) >= 2
    /\ \A i \in 1..Len(convLog) : convLog[i].type = "unsupported"

(* C5: stale directory.  A currencies cache that parses, has its payload   *)
(* and is older than the window, with the remote fetch failing:            *)
(* load_currencies raises nothing and the directory is the cached payload. *)
C5_StaleDirectoryUsed ==
    (/\ currLoad.done
     /\ currLoad.cache.kind = "ok"
     /\ Age(currLoad) > currLoad.exp
     /\ currLoad.fetch \in {"error", "partial"}) =>
        /\ currLoad.raised = "none"
        /\ currLoad.payload = currLoad.cache.payload
        /\ currLoad.file = currLoad.cache

\* C5's case: the fetch failed after filling part of the directory
C5_Witness ==
    /\ currLoad.done
    /\ currLoad.cache.kind = "ok"
    /\ Age(currLoad) > currLoad.exp
    /\ currLoad.fetch = "partial"
    /\ Depth > 0 /\ Top.pc = "check"
    /\ Top.currencies = currLoad.cache.payload

(* C6 as stated: a rates cache that parses and is older than the window,   *)
(* with the remote fetch failing: load_rates raises nothing and the stale  *)
(* rates are used.                                                         *)
C6_StaleRatesUsed ==
    (/\ ratesLoad.done
     /\ ratesLoad.cache.kind = "ok"
     /\ Age(ratesLoad) > ratesLoad.exp
     /\ ratesLoad.fetch = "error") =>
        /\ ratesLoad.raised = "none"
        /\ ratesLoad.loaded
        /\ ratesLoad.payload = ratesLoad.cache.payload

(* C6 amended: in that case load_rates raises ConversionError 'oer_error', *)
(* loads no rates and leaves the cache file as it was.                     *)
C6_StaleRatesRaise ==
    (/\ ratesLoad.done
     /\ ratesLoad.cache.kind \in {"ok", "noPayload"}
     /\ Age(ratesLoad) > ratesLoad.exp
     /\ ratesLoad.fetch = "error") =>
        /\ ratesLoad.raised = "ConversionError"
        /\ ratesLoad.type = "oer_error"
        /\ ~ratesLoad.loaded
        /\ ratesLoad.file = ratesLoad.cache

\* C6's case: a well-formed stale rates cache and a failed fetch
C6_Witness ==
    /\ ratesLoad.done
    /\ ratesLoad.cache.kind = "ok"
    /\ Age(ratesLoad) > ratesLoad.exp
    /\ ratesLoad.fetch = "error"

(* C7: hard failure.  With the currencies cache absent or corrupt and the  *)
(* remote fetch failing, load_currencies raises ConversionError            *)
(* 'no_currs_data' and main returns status 2, having run no conversion and *)
(* called no other strategy.                                               *)
C7_NoDirectoryIsFatal ==
    (/\ currLoad.done
     /\ currLoad.depth = 1
     /\ currLoad.cache.kind \in MissingKinds
     /\ currLoad.fetch \in {"error", "partial"}) =>
        /\ currLoad.raised = "ConversionError"
        /\ currLoad.type = "no_currs_data"
        /\ Done
        /\ result = Return(2, Message("No currencies data available."))
        /\ runs = <<>>
        /\ Len(calls) = 1

(* C8 as stated: the RateTable strategy preferred, the rates cache absent  *)
(* or corrupt and the rate fetch failing: the failure goes to the caller   *)
(* as a fatal failure and the Scrape strategy is not run.                  *)
C8_RatesFailureNoFallback ==
    (/\ ratesLoad.done
     /\ ratesLoad.depth = 1
     /\ ratesLoad.cache.kind \in MissingKinds
     /\ ratesLoad.fetch = "error") =>
        /\ Len(calls) = 1
        /\ \A i \in 1..Len(runs) : runs[i] # "XE"
        /\ Done => (result.kind = "return" /\ result.status = 2)

(* C8 amended: in that case load_rates raises the network failure          *)
(* 'oer_error' and main, on its first try, calls itself once with the      *)
(* identical request and override 'xe', which selects the Scrape strategy. *)
C8_RatesFailureFallsBack ==
    (/\ ratesLoad.done
     /\ ratesLoad.depth = 1
     /\ ratesLoad.cache.kind \in MissingKinds
     /\ ratesLoad.fetch = "error") =>
        /\ ratesLoad.raised = "ConversionError"
        /\ ratesLoad.type = "oer_error"
        /\ Len(calls) = 2
        /\ calls[2].params = calls[1].params
        /\ calls[2].override_converter = "xe"
        /\ ~calls[2].first_try
        /\ SetConverter(calls[2].override_converter, config) = "XE"

\* C8's case: no rates cache, the fetch failed, and the Scrape strategy ran
C8_Witness ==
    /\ ratesLoad.done
    /\ ratesLoad.depth = 1
    /\ ratesLoad.cache.kind = "absent"
    /\ ratesLoad.fetch = "error"
    /\ runs = <<"OER", "XE">>

(* C9: freshness.  For both loaders and every well-formed cache of age at  *)
(* most the window, the loader adopts the cached payload, fetches nothing  *)
(* and leaves the cache file as it was.                                    *)
C9_Freshness ==
    /\ (currLoad.done /\ currLoad.cache.kind = "ok"
        /\ Age(currLoad) <= currLoad.exp) =>
            /\ currLoad.raised = "none"
            /\ currLoad.payload = currLoad.cache.payload
            /\ ~currLoad.fetched
            /\ currLoad.file = currLoad.cache
    /\ (ratesLoad.done /\ ratesLoad.cache.kind = "ok"
        /\ Age(ratesLoad) <= ratesLoad.exp) =>
            /\ ratesLoad.raised = "none"
            /\ ratesLoad.loaded
            /\ ratesLoad.payload = ratesLoad.cache.payload
            /\ ~ratesLoad.fetched
            /\ ratesLoad.file = ratesLoad.cache

\* C9's case: both caches read at the boundary, age = window
C9_Witness ==
    /\ currLoad.done /\ currLoad.cache.kind = "ok"
    /\ Age(currLoad) = currLoad.exp
    /\ ratesLoad.done /\ ratesLoad.cache.kind = "ok"
    /\ Age(ratesLoad) = ratesLoad.exp

(* C10: a corrupt cache is treated as MISSING.  For both loaders and every *)
(* envelope that is absent, unparseable or lacks the timestamp or the      *)
(* payload key, the loader fetches once, adopts and saves a fetched        *)
(* payload, and raises only when the fetch failed, and then a              *)
(* ConversionError.                                                        *)
C10_CorruptIsMissing ==
    /\ (currLoad.done /\ currLoad.cache.kind \in MissingKinds) =>
            /\ currLoad.fetched
            /\ currLoad.raised \in {"none", "ConversionError"}
            /\ currLoad.raised = "ConversionError" <=> currLoad.fetch # "ok"
            /\ currLoad.fetch = "ok" =>
                  /\ currLoad.payload = DirRemote
                  /\ currLoad.file = File("ok", currLoad.now, DirRemote)
    /\ (ratesLoad.done /\ ratesLoad.cache.kind \in MissingKinds) =>
            /\ ratesLoad.fetched
            /\ ratesLoad.raised \in {"none", "ConversionError"}
            /\ ratesLoad.raised = "ConversionError" <=> ratesLoad.fetch # "ok"
            /\ ratesLoad.fetch = "ok" =>
                  /\ ratesLoad.payload = RatesRemote
                  /\ ratesLoad.file.kind = "ok"
                  /\ ratesLoad.file.payload = RatesRemote

\* ---------------------------------------------------------------------------
\* the value of lastConv's request by the pivot arithmetic, as a fraction
\* num/den that is not reduced: x * R[B], x / R[A] or (x / R[A]) * R[B]
PivotRef(R, q) ==
    LET x == q.amount
        a == IF q.in_currency = "USD" THEN <<1, 1>> ELSE Get(R, q.in_currency).rate
        b == IF q.out_currency = "USD" THEN <<1, 1>> ELSE Get(R, q.out_currency).rate
    IN [num |-> x[1] * a[2] * b[1], den |-> x[2] * a[1] * b[2]]

\* the codes of a request that the rate table must hold
Needed(q) == {q.in_currency, q.out_currency} \ {"USD"}

\* a conversion by ConverterOER on a loaded rate table
OERConverted == lastConv.done /\ lastConv.converter = "OER" /\ lastConv.loaded

(* C11: for every rate table R, amount x and codes A # B, when every       *)
(* non-USD code of the request is in R, ConverterOER.convert returns       *)
(* exactly x * R[B] (A = USD), x / R[A] (B = USD) or (x / R[A]) * R[B]      *)
(* (neither is USD): the value of the reference arithmetic, not rounded.   *)
C11_PivotCorrect ==
    (OERConverted /\ Needed(lastConv.params) \subseteq Keys(lastConv.rates)) =>
        LET ref == PivotRef(lastConv.rates, lastConv.params)
        IN /\ lastConv.raised = "none"
           /\ lastConv.value[1] * ref.den = ref.num * lastConv.value[2]

\* a pivot conversion (neither code is USD) whose exact value has more than
\* two decimals
C11_Witness ==
    /\ OERConverted
    /\ "USD" \notin {lastConv.params.in_currency, lastConv.params.out_currency}
    /\ lastConv.raised = "none"
    /\ lastConv.value # Round2(lastConv.value)
    /\ Done

(* C12: whenever ConverterOER.convert runs on a loaded rate table that     *)
(* lacks a code the request needs (its non-USD input, or its non-USD       *)
(* output, also when the output is only looked up in the recursive pivot   *)
(* hop), it raises ConversionError 'unsupported': no other error type, no  *)
(* other exception and no number.                                          *)
C12_MissingRateUnsupported ==
    (OERConverted /\ ~(Needed(lastConv.params) \subseteq Keys(lastConv.rates))) =>
        /\ lastConv.raised = "ConversionError"
        /\ lastConv.type = "unsupported"

\* the input code has a rate and the output code, looked up in the pivot hop
\* (second entry into convert), has none
C12_Witness ==
    /\ OERConverted
    /\ lastConv.params.in_currency \in Keys(lastConv.rates)
    /\ lastConv.params.out_currency \notin Keys(lastConv.rates) \cup {"USD"}
    /\ lastConv.entered = 2
    /\ lastConv.type = "unsupported"

\* a conversion by ConverterXE whose remote answer get_response parsed
XEParsed == lastConv.done /\ lastConv.converter = "XE" /\ lastConv.remote = "none"

(* C13: for every parsed scrape response, ConverterXE.convert returns the  *)
(* response's amount exactly when both echoed codes equal the requested    *)
(* input and output codes; when either one differs it raises               *)
(* ConversionError 'unsupported' and returns no number.                    *)
C13_EchoIntegrity ==
    XEParsed =>
        IF lastConv.echoed = <<lastConv.params.in_currency,
                               lastConv.params.out_currency>>
        THEN lastConv.raised = "none" /\ lastConv.value = lastConv.quoted
        ELSE lastConv.raised = "ConversionError" /\ lastConv.type = "unsupported"

\* only the input code was substituted, and the target was left out
C13_Witness ==
    /\ XEParsed
    /\ lastConv.echoed[1] # lastConv.params.in_currency
    /\ lastConv.echoed[2] = lastConv.params.out_currency
    /\ lastConv.type = "unsupported"
    /\ Done
    /\ result.kind = "return"
    /\ result.payload.kind = "json"
    /\ lastConv.params.out_currency \notin Keys(result.payload.output)

\* the targets whose conversion raised 'unsupported' in the run of depth d
SkippedAt(d) ==
    {convLog[i].target : i \in {j \in 1..Len(convLog) :
                                  convLog[j].depth = d
                                  /\ convLog[j].type = "unsupported"}}

\* the codes the first main iterates, from the directory it loaded
TargetsOfCall ==
    OutCurrs(CheckCurrency(calls[1].params.out_currency, "out",
                           currLoad.payload).code,
             config, currLoad.payload)

\* the first main returned the output map of its own run
ReturnedMap ==
    /\ Done
    /\ Len(calls) = 1
    /\ ~calls[1].list_currs
    /\ result.kind = "return"
    /\ result.payload.kind = "json"

\* no output currency was requested, or the requested one did not resolve
OutAbsent ==
    /\ Len(calls) >= 1
    /\ currLoad.done
    /\ CheckCurrency(calls[1].params.out_currency, "out",
                     currLoad.payload).code = NoneCur

(* C14: when no output currency is given, the keys of the output map are   *)
(* exactly the iterated targets (the directory's codes, or the configured  *)
(* override list) without those whose conversion raised 'unsupported':     *)
(* after each pass of the loop for the targets passed so far, and in the   *)
(* map that main returns for all of them.                                  *)
C14_KeysAreTargetsMinusSkipped ==
    /\ (Depth > 0 /\ Top.pc = "loop" /\ Top.app_params.out_currency = NoneCur) =>
           Keys(Top.converted) =
               {Top.out_currs[i] : i \in 1..(Top.idx - 1)} \ SkippedAt(Depth)
    /\ (ReturnedMap /\ OutAbsent) =>
           Keys(result.payload.output) =
               {TargetsOfCall[i] : i \in 1..Len(TargetsOfCall)} \ SkippedAt(1)

\* a target was skipped and a target iterated after it is in the returned map
C14_Witness ==
    /\ ReturnedMap
    /\ OutAbsent
    /\ \E i \in 1..Len(TargetsOfCall), j \in 1..Len(TargetsOfCall) :
          /\ i < j
          /\ TargetsOfCall[i] \in SkippedAt(1)
          /\ TargetsOfCall[j] \in Keys(result.payload.output)
          /\ TargetsOfCall[j] # result.payload.input.currency

\* the input token of the call is no code and no symbol of the directory that
\* the first main loaded
InputUnresolved ==
    /\ Len(calls) = 1
    /\ ~calls[1].list_currs
    /\ currLoad.done
    /\ currLoad.raised = "none"
    /\ calls[1].params.in_currency \notin Keys(currLoad.payload)
    /\ \A i \in 1..Len(currLoad.payload) :
          currLoad.payload[i].symbol # calls[1].params.in_currency

\* the input code resolved in the directory, and the last conversion found it
\* unknown to the strategy's data: no rate for it in the loaded rate table, or
\* the scrape service echoed another code in its place
InputUnknownToStrategy ==
    /\ Len(calls) = 1
    /\ lastConv.done
    /\ IF lastConv.converter = "OER"
       THEN /\ lastConv.loaded
            /\ lastConv.params.in_currency \notin Keys(lastConv.rates) \cup {"USD"}
       ELSE /\ lastConv.remote = "none"
            /\ lastConv.echoed[1] # lastConv.params.in_currency

(* C15, as the spec states it: when the input currency is unsupported      *)
(* (unresolvable in the directory, or in the directory and unknown to the  *)
(* active strategy's data), main reports status 1.                         *)
C15_InputUnsupportedIsClientError ==
    (Done /\ (InputUnresolved \/ InputUnknownToStrategy)) =>
        (result.kind = "return" /\ result.status = 1)

(* C15, as the code has it: an input token that does not resolve in the    *)
(* directory gives status 1 with the message of line 286; an input code    *)
(* that the strategy's data does not know makes every conversion raise     *)
(* 'unsupported', the targets are skipped and main returns status 0 with   *)
(* an output map that lacks them.                                          *)
C15_UnresolvedIsClientErrorUnknownIsSkipped ==
    /\ (Done /\ InputUnresolved) =>
           result = Return(1, Message("Given input currency is not a valid currency code or symbol."))
    /\ (Done /\ InputUnknownToStrategy) =>
           /\ result.kind = "return"
           /\ result.status = 0
           /\ result.payload.kind = "json"
           /\ lastConv.params.out_currency \notin Keys(result.payload.output)

\* the input code is unknown to the strategy and main returned success with an
\* empty output map
C15_Witness ==
    /\ Done
    /\ InputUnknownToStrategy
    /\ result.kind = "return"
    /\ result.status = 0
    /\ result.payload.kind = "json"
    /\ result.payload.output = <<>>

\* load_currencies fetched the directory and saved it
CurrSaved == currLoad.done /\ currLoad.fetch = "ok"

\* load_rates fetched a response that has both keys and saved it
RatesSaved == ratesLoad.done /\ ratesLoad.fetch = "ok"

(* C16, as the spec states it: every save leaves exactly the fetched       *)
(* payload in the cache file, with a timestamp equal to the local time of  *)
(* the fetch.                                                              *)
C16_SaveStampsNow ==
    /\ CurrSaved =>
           /\ currLoad.payload = DirRemote
           /\ currLoad.file = File("ok", currLoad.now, DirRemote)
    /\ RatesSaved =>
           /\ ratesLoad.payload = RatesRemote
           /\ ratesLoad.file = File("ok", ratesLoad.now, RatesRemote)

(* C16, as the code has it: save_currencies leaves exactly the fetched     *)
(* directory with timestamp = the local time; save_rates leaves exactly    *)
(* the fetched rates with the timestamp that the remote response carries,  *)
(* whatever the local time is.                                             *)
C16_SaveEnvelope ==
    /\ CurrSaved =>
           /\ currLoad.payload = DirRemote
           /\ currLoad.file = File("ok", currLoad.now, DirRemote)
    /\ RatesSaved =>
           /\ ratesLoad.payload = RatesRemote
           /\ ratesLoad.file = File("ok", ratesLoad.resp_ts, RatesRemote)

\* rates were saved at a local time that differs from the response's timestamp
C16_Witness ==
    /\ RatesSaved
    /\ ratesLoad.resp_ts # ratesLoad.now
    /\ cacheRates.kind = "ok"
    /\ cacheRates.timestamp = ratesLoad.resp_ts
    /\ cacheRates.payload = RatesRemote

(* C17: ConverterOER.convert is entered at most twice per call of the      *)
(* loop: once, or once more for the pivot hop, which is made only when     *)
(* neither code is USD and the input code has a rate, and which (its       *)
(* in_currency being USD) does not recurse again.                          *)
C17_PivotDepth ==
    (lastConv.done /\ lastConv.converter = "OER") =>
        /\ lastConv.entered \in {1, 2}
        /\ lastConv.entered = 2 =>
              /\ "USD" \notin {lastConv.params.in_currency,
                               lastConv.params.out_currency}
              /\ lastConv.params.in_currency \in Keys(lastConv.rates)

\* a pivot conversion returned after its second entry into convert
C17_Witness ==
    /\ OERConverted
    /\ lastConv.entered = 2
    /\ lastConv.raised = "none"
    /\ Done

(* C18: every failure of ConverterXE's remote step (the request, a missing *)
(* span of the page, a non-numeric amount) leaves convert as               *)
(* ConversionError 'xe_error'; convert raises nothing but ConversionError, *)
(* and 'unsupported' only for a response that get_response parsed.         *)
C18_RemoteFailureIsXeError ==
    (lastConv.done /\ lastConv.converter = "XE") =>
        /\ lastConv.raised \in {"none", "ConversionError"}
        /\ lastConv.remote # "none" =>
              (lastConv.raised = "ConversionError" /\ lastConv.type = "xe_error")
        /\ lastConv.type = "unsupported" => lastConv.remote = "none"

\* the remote step of ConverterXE failed, convert raised 'xe_error' and main
\* fell back on it
C18_Witness ==
    /\ lastConv.done
    /\ lastConv.converter = "XE"
    /\ lastConv.remote = "failed"
    /\ lastConv.type = "xe_error"
    /\ Len(calls) = 2
    /\ calls[2].override_converter = "oer"

(* C19: in every activation of main the directory is loaded once, at       *)
(* construction, and the rate table at most once: after the conversion     *)
(* that loaded it no later conversion of the run (pivot hop and further    *)
(* targets included) calls load_rates again, and the directory and the     *)
(* rate table of the converter stay what their one load gave.              *)
C19_LoadOnce ==
    \A i \in 1..Depth :
        /\ frames[i].curr_loads = IF frames[i].pc = "construct" THEN 0 ELSE 1
        /\ frames[i].rates_loads \in {0, 1}
        /\ frames[i].rates_loaded => frames[i].rates_loads = 1
        /\ frames[i].rates_loads <= frames[i].convert_calls
        /\ frames[i].converter = "XE" => frames[i].rates_loads = 0
        /\ (frames[i].pc # "construct" /\ currLoad.depth = i) =>
               frames[i].currencies = currLoad.payload
        /\ (frames[i].rates_loaded /\ ratesLoad.depth = i) =>
               frames[i].rates = ratesLoad.payload

\* the second or a later conversion of a run on the rate table that the first
\* one fetched, the last one through the pivot hop
C19_Witness ==
    /\ Depth > 0
    /\ Top.converter = "OER"
    /\ Top.convert_calls >= 2
    /\ Top.rates_loads = 1
    /\ ratesLoad.fetched
    /\ ratesLoad.depth = Depth
    /\ lastConv.entered = 2
    /\ Top.rates = RatesRemote

\* v is a number of hundredths and a nearest one to x
IsRound2Of(v, x) ==
    /\ 100 % v[2] = 0
    /\ 200 * Abs(v[1] * x[2] - x[1] * v[2]) <= v[2] * x[2]

\* the entries of an output map for the request amount of input currency in:
\* the input currency's entry is the amount itself, the others are hundredths
MapValuesOk(map, in, amount) ==
    \A k \in 1..Len(map) :
        IF map[k].code = in THEN map[k].value = amount
        ELSE 100 % map[k].value[2] = 0

(* C20: in get_conversion a target equal to the input currency gets the    *)
(* request amount itself, not rounded, and convert is not called for it    *)
(* (convert was called once per other target passed so far); every other   *)
(* target in the map holds a number of hundredths, the one just converted  *)
(* the strategy's result rounded to the nearest hundredth.  The same holds *)
(* of the map that main returns.                                           *)
C20_SameCurrencyUnchanged ==
    /\ (Depth > 0 /\ Top.pc = "loop") =>
           /\ MapValuesOk(Top.converted, Top.app_params.in_currency,
                          Top.app_params.amount)
           /\ Top.convert_calls =
                  Cardinality({i \in 1..(Top.idx - 1) :
                                  Top.out_currs[i] # Top.app_params.in_currency})
           /\ (/\ lastConv.done
               /\ lastConv.depth = Depth
               /\ lastConv.raised = "none"
               /\ Top.idx > 1
               /\ Top.out_currs[Top.idx - 1] = lastConv.params.out_currency) =>
                  /\ lastConv.params.out_currency \in Keys(Top.converted)
                  /\ IsRound2Of(Get(Top.converted,
                                    lastConv.params.out_currency).value,
                                lastConv.value)
    /\ ReturnedMap =>
           /\ result.payload.input.amount = calls[1].params.amount
           /\ MapValuesOk(result.payload.output, result.payload.input.currency,
                          calls[1].params.amount)

\* the returned map holds the input currency with an amount of three decimals
\* and another target whose exact value had to be rounded
C20_Witness ==
    /\ ReturnedMap
    /\ result.payload.input.currency \in Keys(result.payload.output)
    /\ Get(result.payload.output, result.payload.input.currency).value
           = Rat(2469, 200)
    /\ lastConv.done
    /\ lastConv.raised = "none"
    /\ lastConv.value # Round2(lastConv.value)
    /\ lastConv.params.out_currency \in Keys(result.payload.output)
    /\ Get(result.payload.output, lastConv.params.out_currency).value
           = Round2(lastConv.value)

\* the input token of the call is no code and no symbol of the directory that
\* the last load_currencies gave
TokenUnresolved ==
    /\ Len(calls) >= 1
    /\ ~calls[1].list_currs
    /\ currLoad.done
    /\ currLoad.raised = "none"
    /\ calls[1].params.in_currency \notin Keys(currLoad.payload)
    /\ \A i \in 1..Len(currLoad.payload) :
          currLoad.payload[i].symbol # calls[1].params.in_currency

\* the codes of an output map, in the order of their insertion
Codes(map) == [k \in 1..Len(map) |-> map[k].code]

\* the targets passed so far by the loop of the running main that were not
\* skipped, in iteration order
PassedKept ==
    LET kept(c) == c \notin SkippedAt(Depth)
    IN SelectSeq(SubSeq(Top.out_currs, 1, Top.idx - 1), kept)

(* C21: in every activation of main the directory is loaded before any     *)
(* load_rates and any call of convert (none of either while the app is     *)
(* being constructed and checked); the loop converts the targets one at a  *)
(* time in iteration order; and when the input token resolves to no        *)
(* directory code main returns status 1 after no load_rates, no call of    *)
(* convert, no run and no fallback.                                        *)
C21_Ordering ==
    /\ \A i \in 1..Depth :
          /\ frames[i].pc \in {"construct", "check", "run"} =>
                (frames[i].convert_calls = 0 /\ frames[i].rates_loads = 0)
          /\ frames[i].convert_calls > 0 => frames[i].curr_loads = 1
    /\ (Depth > 0 /\ Top.pc \in {"construct", "check", "run"}) =>
          (lastConv.depth < Depth /\ ratesLoad.depth < Depth)
    /\ (Depth > 0 /\ Top.pc = "loop") =>
          /\ Codes(Top.converted) = PassedKept
          /\ (Top.idx > 1
              /\ Top.out_currs[Top.idx - 1] # Top.app_params.in_currency) =>
                 /\ lastConv.depth = Depth
                 /\ lastConv.params.out_currency = Top.out_currs[Top.idx - 1]
    /\ (Done /\ TokenUnresolved) =>
          /\ result = Return(1, Message("Given input currency is not a valid currency code or symbol."))
          /\ Len(calls) = 1
          /\ runs = <<>>
          /\ convLog = <<>>
          /\ ~ratesLoad.done
          /\ ~lastConv.done

\* load_currencies issued its remote request, the token did not resolve in
\* the directory it gave, and main returned status 1
C21_Witness ==
    /\ Done
    /\ TokenUnresolved
    /\ currLoad.fetched
    /\ result.kind = "return"
    /\ result.status = 1
    /\ ~ratesLoad.done
    /\ ~lastConv.done

(* C22: the cache files change only when a remote fetch succeeded: each    *)
(* file is what the last load of its loader left (or what it was at the    *)
(* start, if there was none), and a load that read a fresh cache, or whose *)
(* fetch did not succeed, leaves its file as it found it.                  *)
C22_WrittenOnlyAfterFetch ==
    /\ cacheCurr = currLoad.file
    /\ cacheRates = ratesLoad.file
    /\ (currLoad.done /\ currLoad.fetch # "ok") => currLoad.file = currLoad.cache
    /\ (ratesLoad.done /\ ratesLoad.fetch # "ok") => ratesLoad.file = ratesLoad.cache

(* C23: main never ends by raising: whatever the cache files hold and      *)
(* whatever the remote sources answer, the call ends with a returned       *)
(* [status, payload] pair.                                                 *)
C23_NoUntypedEscape == Done => result.kind = "return"

\* the last load_currencies read, at the time of the refresh and with its
\* window, the very file that a refresh of the call before had saved
CurrReloaded ==
    /\ earlier.curr.done
    /\ earlier.curr.fetch = "ok"
    /\ currLoad.done
    /\ currLoad # earlier.curr
    /\ currLoad.cache = earlier.curr.file
    /\ currLoad.now = earlier.curr.now
    /\ currLoad.exp = earlier.curr.exp

\* the same for load_rates
RatesReloaded ==
    /\ earlier.rates.done
    /\ earlier.rates.fetch = "ok"
    /\ ratesLoad.done
    /\ ratesLoad # earlier.rates
    /\ ratesLoad.cache = earlier.rates.file
    /\ ratesLoad.now = earlier.rates.now
    /\ ratesLoad.exp = earlier.rates.exp

\* load L found its cache fresh and took payload from it without a fetch
Adopted(L, payload) ==
    /\ ~L.fetched
    /\ L.raised = "none"
    /\ L.payload = payload
    /\ L.file = L.cache

(* C24, as the spec states it: for both loaders, a load at the time t of a *)
(* refresh, of the file the refresh saved and with the same window, finds  *)
(* the cache fresh and adopts the saved payload without a remote fetch.    *)
C24_ReloadIsFresh ==
    /\ CurrReloaded => Adopted(currLoad, earlier.curr.payload)
    /\ RatesReloaded => Adopted(ratesLoad, earlier.rates.payload)

(* C24, as the code has it: the directory loader does so; the rate loader  *)
(* does so exactly when the timestamp that the refresh took from the       *)
(* remote response is at most the window before t, and otherwise finds the *)
(* cache it just saved expired and issues another remote fetch.            *)
C24_ReloadFreshByStamp ==
    /\ CurrReloaded => Adopted(currLoad, earlier.curr.payload)
    /\ RatesReloaded =>
          IF ratesLoad.now - earlier.rates.resp_ts <= ratesLoad.exp
          THEN Adopted(ratesLoad, earlier.rates.payload)
          ELSE ratesLoad.fetched

\* the rates saved by a refresh carry an old remote timestamp, and the next
\* load at the same time fetched again
C24_Witness ==
    /\ RatesReloaded
    /\ earlier.rates.resp_ts < ratesLoad.now
    /\ ratesLoad.fetched
    /\ CurrReloaded
    /\ ~currLoad.fetched
====
